---- MODULE Spec2Model ----
(***************************************************************************)
(* Teamtailor CSV exporter: the page fetcher with its 429 backoff, the     *)
(* pagination driver, the relationship flattener, the CSV encoder and the  *)
(* export endpoint that drives them.                                       *)
(*                                                                         *)
(* Text that ends up in a CSV field is a sequence of one-character         *)
(* strings (<<"a", ",", "b">>), so that escaping works on characters.      *)
(* A JavaScript object is a record whose optional keys may be missing      *)
(* from its DOMAIN.                                                        *)
(***************************************************************************)
EXTENDS Integers, Sequences, FiniteSets, TLC

VARIABLES
    upstream,   \* the upstream service: page number -> the body it serves
    API_KEY,    \* process.env.TEAMTAILOR_API_KEY, read once at startup
    ex,         \* export -> the locals of that run of the pipeline
    fl,         \* the flattener applied to one record and one side-loaded list
    cv          \* the CSV encoder applied to one field or one row sequence

vars == <<upstream, API_KEY, ex, fl, cv>>

----------------------------------------------------------------------------
(* Program constants *)

PAGE_SIZE == 30
MAX_RETRIES == 3
\* let totalPages: number | null = null -- null is written 0 here; the code
\* only ever stores a truthy (non-zero) number in totalPages.
NullPages == 0

(* Bounds of the model *)

MaxPages == 2       \* pages the upstream can serve
MaxRefs == 2        \* references in one relationship array
MaxIncluded == 2    \* side-loaded records in one flattener input
MaxFieldLen == 3    \* characters of a field given to escapeField
MaxRows == 2        \* rows given to convertToCSV

----------------------------------------------------------------------------
(* JavaScript object access *)

Has(o, k) == k \in DOMAIN o

\* String(o[k]): a missing key read without its || "" fallback
OrEmptyMut(o, k) ==
    IF Has(o, k) THEN o[k] ELSE <<"u","n","d","e","f","i","n","e","d">>

\* o[k] || ""   (a missing key and the empty string both give "")
OrEmpty(o, k) == IF Has(o, k) THEN o[k] ELSE <<>>

\* Map.prototype.set: a later entry for the same key replaces the earlier
MapSet(m, k, v) == [x \in (DOMAIN m) \cup {k} |-> IF x = k THEN v ELSE m[x]]

EmptyMap == [x \in {} |-> x]

----------------------------------------------------------------------------
(* Relationship flattener *)

\* candidate.relationships?.["job-applications"]?.data, tagged with what
\* Array.isArray sees: "array", "object" (one {id, type}) or "undefined".
JobAppRefs(candidate) ==
    IF /\ Has(candidate, "relationships")
       /\ Has(candidate.relationships, "job-applications")
       /\ Has(candidate.relationships["job-applications"], "data")
    THEN candidate.relationships["job-applications"].data
    ELSE [kind |-> "undefined"]

\* Array.isArray(jobAppRefs) && jobAppRefs.length > 0
IsNonEmptyArray(refs) == refs.kind = "array" /\ Len(refs.items) > 0

\* String(undefined): the lookup without its || "" fallback
CreatedAtMut(jobAppsMap, id) ==
    IF id \in DOMAIN jobAppsMap
    THEN OrEmpty(jobAppsMap[id].attributes, "created-at")
    ELSE <<"u","n","d","e","f","i","n","e","d">>

\* jobAppsMap.get(ref.id)?.attributes["created-at"] || ""
CreatedAt(jobAppsMap, id) ==
    IF id \in DOMAIN jobAppsMap
    THEN OrEmpty(jobAppsMap[id].attributes, "created-at")
    ELSE <<>>

parseCandidateToRows(candidate, jobAppsMap) ==
    LET attrs == candidate.attributes
        candidateId == candidate.id
        firstName == OrEmpty(attrs, "first-name")
        lastName == OrEmpty(attrs, "last-name")
        email == OrEmpty(attrs, "email")
        jobAppRefs == JobAppRefs(candidate)
    IN  IF IsNonEmptyArray(jobAppRefs)
        THEN [i \in 1..Len(jobAppRefs.items) |->
                [candidate_id |-> candidateId,
                 first_name |-> firstName,
                 last_name |-> lastName,
                 email |-> email,
                 job_application_id |-> jobAppRefs.items[i].id,
                 job_application_created_at |->
                     CreatedAt(jobAppsMap, jobAppRefs.items[i].id)]]
        ELSE << [candidate_id |-> candidateId,
                 first_name |-> firstName,
                 last_name |-> lastName,
                 email |-> email,
                 job_application_id |-> <<>>,
                 job_application_created_at |-> <<>>] >>

RECURSIVE IndexFrom(_, _)
IndexFrom(included, m) ==
    IF included = <<>> THEN m
    ELSE LET resource == Head(included)
         IN  IndexFrom(Tail(included),
                       IF resource.type = "job-applications"
                       THEN MapSet(m, resource.id, resource)
                       ELSE m)

\* the index declared once, outside the while loop, and never cleared
NewMapMut(previous) == previous

\* const jobAppsMap = new Map() in the body of the while loop: whatever the
\* map of the iteration before (previous) held, this one starts empty
NewMap(previous) == EmptyMap

\* const jobAppsMap = new Map(); if (data.included) data.included.forEach(...)
IndexPage(previous, data) ==
    IF Has(data, "included") THEN IndexFrom(data.included, NewMap(previous))
    ELSE NewMap(previous)

\* the index of one page taken by itself
BuildJobAppsMap(data) == IndexPage(EmptyMap, data)

RECURSIVE FlattenAll(_, _)
\* data.data.forEach(candidate => parseCandidateToRows(...).forEach(push))
FlattenAll(candidates, jobAppsMap) ==
    IF candidates = <<>> THEN <<>>
    ELSE parseCandidateToRows(Head(candidates), jobAppsMap)
             \o FlattenAll(Tail(candidates), jobAppsMap)

----------------------------------------------------------------------------
(* CSV encoder *)

COMMA == ","
QUOTE == "\""
NEWLINE == "\n"
BOM == "\\uFEFF"

headers == << "candidate_id", "first_name", "last_name", "email",
              "job_application_id", "job_application_created_at" >>

\* the characters of a header name
HeaderText(h) ==
    CASE h = "candidate_id" ->
           <<"c","a","n","d","i","d","a","t","e","_","i","d">>
      [] h = "first_name" -> <<"f","i","r","s","t","_","n","a","m","e">>
      [] h = "last_name" -> <<"l","a","s","t","_","n","a","m","e">>
      [] h = "email" -> <<"e","m","a","i","l">>
      [] h = "job_application_id" ->
           <<"j","o","b","_","a","p","p","l","i","c","a","t","i","o","n",
             "_","i","d">>
      [] h = "job_application_created_at" ->
           <<"j","o","b","_","a","p","p","l","i","c","a","t","i","o","n",
             "_","c","r","e","a","t","e","d","_","a","t">>

Contains(str, ch) == \E i \in 1..Len(str) : str[i] = ch

\* the embedded quotes left single
DoubleQuotesMut(str) == str

RECURSIVE DoubleQuotes(_)
\* str.replace(/"/g, '""')
DoubleQuotes(str) ==
    IF str = <<>> THEN <<>>
    ELSE (IF Head(str) = QUOTE THEN <<QUOTE, QUOTE>> ELSE <<Head(str)>>)
             \o DoubleQuotes(Tail(str))

\* the quoting of escapeField, on the string its first line produced
escapeField(str) ==
    IF Contains(str, COMMA) \/ Contains(str, QUOTE) \/ Contains(str, NEWLINE)
    THEN <<QUOTE>> \o DoubleQuotes(str) \o <<QUOTE>>
    ELSE str

RECURSIVE JoinMut(_, _)
\* a separator after every part, the last one included
JoinMut(parts, sep) ==
    IF parts = <<>> THEN <<>>
    ELSE parts[1] \o <<sep>> \o JoinMut(Tail(parts), sep)

RECURSIVE Join(_, _)
\* Array.prototype.join
Join(parts, sep) ==
    IF parts = <<>> THEN <<>>
    ELSE IF Len(parts) = 1 THEN parts[1]
    ELSE parts[1] \o <<sep>> \o Join(Tail(parts), sep)

\* const str = String(field == null ? "" : field), for field = row[h]: a
\* property the row does not have reads as undefined
StringOf(row, h) == IF Has(row, h) THEN row[h] ELSE <<>>

convertToCSV(rows) ==
    LET headerLine == Join([i \in 1..Len(headers) |-> HeaderText(headers[i])], COMMA)
        line(row) ==
            Join([i \in 1..Len(headers) |-> escapeField(StringOf(row, headers[i]))],
                 COMMA)
        csvLines == <<headerLine>> \o [i \in 1..Len(rows) |-> line(rows[i])]
    IN  <<BOM>> \o Join(csvLines, NEWLINE)

----------------------------------------------------------------------------
(* Errors and HTTP statuses *)

Error(message) == [message |-> message]

Null == [null |-> TRUE]

\* response.ok
Ok(status) == status >= 200 /\ status <= 299

\* retrying server errors as well
RetryableMut(status) == status = 429 \/ status >= 500

\* if (response.status === 429) { ...; continue; }
Retryable(status) == status = 429

\* the throws of the !response.ok branch
ErrorFor(status) ==
    IF status = 401 THEN Error("Invalid API key")
    ELSE IF status = 403 THEN Error("Access denied")
    ELSE Error("API error: " \o ToString(status))

\* the exponent off by one: 2s, 4s, 8s
BackoffDelayMut(attempt) == (2 ^ attempt) * 1000

\* const delay = Math.pow(2, attempt - 1) * 1000   (milliseconds)
BackoffDelay(attempt) == (2 ^ (attempt - 1)) * 1000

\* Math.ceil(a / b) for positive integers
Ceil(a, b) == (a + b - 1) \div b

----------------------------------------------------------------------------
(* One export: the locals of fetchAllCandidates, of the fetchCandidatesPage *)
(* call it is awaiting, and of the endpoint handler around it.  Each        *)
(* operator below is a piece of straight-line code between two awaits; it   *)
(* maps the locals before to the locals after.                              *)

Ev(ev, n) == [ev |-> ev, n |-> n]

IdleExport ==
    [pc |-> "idle",            \* idle, awaitResponse, sleeping, awaitJson, done
     via |-> "none",           \* "endpoint" (GET /api/export) or "direct"
     apiKey |-> "",
     currentPage |-> 0,
     totalPages |-> NullPages,
     allRows |-> <<>>,
     label |-> <<>>,           \* what "Fetching page ..." last printed
     pageNumber |-> 0,         \* fetchCandidatesPage's parameter
     attempt |-> 0,
     lastError |-> Null,
     timer |-> 0,              \* ms of the pending setTimeout, 0 when none
     inflight |-> 0,           \* nodeFetch calls not yet answered
     trace |-> <<>>,           \* events of the current fetchCandidatesPage call
     lastCall |-> Null,        \* the call that settled last, and how
     reqLog |-> <<>>,          \* every request issued: page and credential
     rateLimited |-> 0,        \* 429 responses received so far
     pagesDone |-> <<>>,       \* pages whose rows were appended
     jobAppsMap |-> EmptyMap,  \* the index of the iteration that ran last
     result |-> Null,          \* how fetchAllCandidates settled
     res |-> Null]             \* what the endpoint sent

\* the endpoint after fetchAllCandidates settled: res.send(csv) or the catch
ServerReply(outcome) ==
    IF outcome.type = "return"
    THEN [status |-> 200, contentType |-> "text/csv; charset=utf-8",
          csv |-> convertToCSV(outcome.rows)]
    ELSE [status |-> 500, contentType |-> "application/json",
          error |-> outcome.error.message]

\* fetchAllCandidates settles; its caller runs on
DriverSettles(r, outcome) ==
    [r EXCEPT !.pc = "done",
              !.result = outcome,
              !.res = IF r.via = "endpoint" THEN ServerReply(outcome) ELSE @]

\* the rejection caught and the rows so far returned
PropagateErrorMut(err, allRows) == [type |-> "return", rows |-> allRows]

\* const data = await fetchCandidatesPage(...) sits in no try block: the
\* rejection leaves fetchAllCandidates as it is and allRows is dropped
PropagateError(err, allRows) == [type |-> "throw", error |-> err]

\* a throw inside fetchCandidatesPage
Throw(r, err) ==
    DriverSettles(
        [r EXCEPT !.lastCall = [page |-> r.pageNumber, trace |-> r.trace,
                                outcome |-> [type |-> "throw", error |-> err]]],
        PropagateError(err, r.allRows))

\* const response = await nodeFetch(url, { headers })
Request(r) ==
    [r EXCEPT !.pc = "awaitResponse",
              !.inflight = @ + 1,
              !.reqLog = Append(@, [page |-> r.pageNumber, token |-> r.apiKey]),
              !.trace = Append(@, Ev("request", r.pageNumber))]

\* the sleep started but not awaited: the loop goes straight on
SleepMut(r, delay) ==
    Request([r EXCEPT !.timer = delay,
                      !.trace = Append(@, Ev("wait", delay))])

\* console.log("Rate limited, waiting ..."); await sleep(delay)
Sleep(r, delay) ==
    [r EXCEPT !.pc = "sleeping",
              !.timer = delay,
              !.trace = Append(@, Ev("wait", delay))]

\* the loop bound off by one: a fourth retry
ForIterationMut(r) ==
    IF r.attempt > MAX_RETRIES + 1
    THEN Throw(r, IF r.lastError # Null THEN r.lastError
                  ELSE Error("Max retries exceeded"))
    ELSE IF r.attempt > 0
    THEN Sleep(r, BackoffDelay(r.attempt))
    ELSE Request(r)

\* the head of the for loop, up to its first await
ForIteration(r) ==
    IF r.attempt > MAX_RETRIES
    THEN Throw(r, IF r.lastError # Null THEN r.lastError
                  ELSE Error("Max retries exceeded"))
    ELSE IF r.attempt > 0
    THEN Sleep(r, BackoffDelay(r.attempt))
    ELSE Request(r)

\* attempt and lastError kept from the page before: one budget per export
WhileIterationMut(r) ==
    ForIteration([r EXCEPT !.label = <<r.currentPage, r.totalPages>>,
                           !.pageNumber = r.currentPage,
                           !.trace = <<>>])

\* the head of the while loop: the progress label, then the call of
\* fetchCandidatesPage(apiKey, currentPage) up to its first await
WhileIteration(r) ==
    ForIteration([r EXCEPT !.label = <<r.currentPage, r.totalPages>>,
                           !.pageNumber = r.currentPage,
                           !.attempt = 0,
                           !.lastError = Null,
                           !.trace = <<>>])

\* const fetchAllCandidates = async (apiKey) => { ... up to the first await
fetchAllCandidates(r, apiKey) ==
    WhileIteration([r EXCEPT !.apiKey = apiKey,
                             !.allRows = <<>>,
                             !.currentPage = 1,
                             !.totalPages = NullPages])

\* if (totalPages === null && data.meta) { ... }
TotalPages(totalPages, data) ==
    IF totalPages = NullPages /\ Has(data, "meta")
    THEN IF Has(data.meta, "record_count") /\ data.meta.record_count # 0
         THEN Ceil(data.meta.record_count, PAGE_SIZE)
         ELSE IF Has(data.meta, "page_count") /\ data.meta.page_count # 0
         THEN data.meta.page_count
         ELSE totalPages
    ELSE totalPages

\* testing that the cursor is there, not that it is non-empty
HasNextMut(data) == Has(data, "links") /\ Has(data.links, "next")

\* if (data.links && data.links.next)
HasNext(data) ==
    Has(data, "links") /\ Has(data.links, "next") /\ data.links.next # ""

\* the accumulator started afresh for every page
AppendRowsMut(allRows, rows) == rows

\* rows.forEach(row => allRows.push(row))
AppendRows(allRows, rows) == allRows \o rows

\* the loop also ended once the estimated number of pages is reached
ProcessPageMut(r, data) ==
    LET jobAppsMap == IndexPage(r.jobAppsMap, data)
        r1 == [r EXCEPT !.totalPages = TotalPages(@, data),
                        !.jobAppsMap = jobAppsMap,
                        !.allRows = AppendRows(@, FlattenAll(data.data, jobAppsMap)),
                        !.pagesDone = Append(@, r.currentPage)]
    IN  IF HasNext(data) /\ (r1.totalPages = NullPages \/ r.currentPage < r1.totalPages)
        THEN WhileIteration([r1 EXCEPT !.currentPage = @ + 1])
        ELSE DriverSettles(r1, [type |-> "return", rows |-> r1.allRows])

\* the body of the while loop after fetchCandidatesPage returned data
ProcessPage(r, data) ==
    LET jobAppsMap == IndexPage(r.jobAppsMap, data)
        r1 == [r EXCEPT !.totalPages = TotalPages(@, data),
                        !.jobAppsMap = jobAppsMap,
                        !.allRows = AppendRows(@, FlattenAll(data.data, jobAppsMap)),
                        !.pagesDone = Append(@, r.currentPage)]
    IN  IF HasNext(data)
        THEN WhileIteration([r1 EXCEPT !.currentPage = @ + 1])
        ELSE DriverSettles(r1, [type |-> "return", rows |-> r1.allRows])

\* the code after await nodeFetch(...) resolved with this status
OnResponse(r, status) ==
    LET r1 == [r EXCEPT !.inflight = @ - 1,
                        !.trace = Append(@, Ev("response", status))]
    IN  IF Retryable(status)
        THEN ForIteration([r1 EXCEPT !.lastError = Error("Rate limited"),
                                     !.attempt = @ + 1,
                                     !.rateLimited = @ + 1])
        ELSE IF ~Ok(status)
        THEN Throw(r1, ErrorFor(status))
        ELSE [r1 EXCEPT !.pc = "awaitJson"]

\* return (await response.json()) as ApiResponse, and the driver goes on
OnJson(r, data) ==
    ProcessPage(
        [r EXCEPT !.lastCall = [page |-> r.pageNumber, trace |-> r.trace,
                                outcome |-> [type |-> "return", data |-> data]]],
        data)

\* setTimeout's callback resolves the sleep; the loop goes on to nodeFetch
OnTimer(r) == Request([r EXCEPT !.timer = 0])

\* if (!apiKey || apiKey === "your_api_key_here")
Unusable(apiKey) == apiKey = "" \/ apiKey = "your_api_key_here"

\* req.headers["x-api-key"] || API_KEY   ("" stands for a missing value too)
PickKey(header, envKey) == IF header # "" THEN header ELSE envKey

\* app.get("/api/export", ...) up to its first await
OnExportRequest(r, header, envKey) ==
    LET apiKey == PickKey(header, envKey)
        r1 == [r EXCEPT !.via = "endpoint"]
    IN  IF Unusable(apiKey)
        THEN [r1 EXCEPT !.pc = "done",
                        !.res = [status |-> 400, contentType |-> "application/json",
                                 error |-> "Missing API key"]]
        ELSE fetchAllCandidates(r1, apiKey)

----------------------------------------------------------------------------
(* The inputs the model draws from *)

JA == "job-applications"

IdA == <<"a">>
IdB == <<"b">>
T1 == <<"2","0","2","4","-","0","1","-","0","1">>
T2 == <<"2","0","2","4","-","0","1","-","0","2">>

Ref(id) == [id |-> id, type |-> JA]

JobApp(id, createdAt) ==
    [id |-> id, type |-> JA, attributes |-> ("created-at" :> createdAt)]

Rel(data) == (JA :> [data |-> data])

Arr(items) == [kind |-> "array", items |-> items]

Obj(item) == [kind |-> "object", item |-> item]

FullAttrs ==
    ("first-name" :> <<"A","n","n">>) @@ ("last-name" :> <<"L","e","e">>)
        @@ ("email" :> <<"a","@","x">>)

\* the attribute mappings: each of the three keys present or missing
AttrSets ==
    { [k \in ks |-> FullAttrs[k]] : ks \in SUBSET {"first-name", "last-name", "email"} }

RefIds == {IdA, IdB}

RECURSIVE SeqsUpTo(_, _)
\* the sequences over S of length at most n
SeqsUpTo(S, n) ==
    IF n = 0 THEN {<<>>}
    ELSE LET shorter == SeqsUpTo(S, n - 1)
         IN  shorter \cup {Append(q, x) : q \in shorter, x \in S}

\* the values of relationships["job-applications"].data
RelDatas ==
    {Arr(items) : items \in SeqsUpTo({Ref(id) : id \in RefIds}, MaxRefs)}
        \cup {Obj(Ref(id)) : id \in RefIds}

\* primary records for the flattener
Candidates ==
    LET base == {[id |-> <<"c","1">>, type |-> "candidates", attributes |-> a] :
                    a \in AttrSets}
    IN  base
        \cup {[id |-> c.id, type |-> c.type, attributes |-> c.attributes,
               relationships |-> [other |-> TRUE]] : c \in base}
        \cup {[id |-> c.id, type |-> c.type, attributes |-> c.attributes,
               relationships |-> Rel(d)] : c \in base, d \in RelDatas}

\* side-loaded records: of the related type or another, with or without
\* a created-at attribute
Resources ==
    {[id |-> id, type |-> JA, attributes |-> a] :
        id \in RefIds, a \in {[other |-> TRUE], "created-at" :> T1, "created-at" :> T2}}
        \cup {[id |-> id, type |-> "users", attributes |-> ("created-at" :> T1)] :
                id \in RefIds}

\* page bodies as far as the flattener reads them: included is optional
FlatInputs ==
    {[data |-> <<c>>] : c \in Candidates}
        \cup {[data |-> <<c>>, included |-> inc] :
                c \in Candidates, inc \in SeqsUpTo(Resources, MaxIncluded)}

Cand(id, attrs) == [id |-> id, type |-> "candidates", attributes |-> attrs]

CandRel(id, attrs, data) ==
    [id |-> id, type |-> "candidates", attributes |-> attrs,
     relationships |-> Rel(data)]

\* what a page can carry apart from its links
Contents ==
    { \* one candidate, two applications, both side-loaded; 31 records in all
      [data |-> << CandRel(<<"c","1">>, FullAttrs, Arr(<<Ref(IdA), Ref(IdB)>>)) >>,
       included |-> << JobApp(IdA, T1), JobApp(IdB, T2) >>,
       meta |-> [record_count |-> 31]],
      \* one candidate without relationships, nothing side-loaded, no meta
      [data |-> << Cand(<<"c","2">>, "first-name" :> <<"B","o">>) >>],
      \* a reference that is not side-loaded as a job application, a single
      \* (non-array) reference, and a page count of 1
      [data |-> << CandRel(<<"c","3">>, FullAttrs, Arr(<<Ref(IdA)>>)),
                   CandRel(<<"c","4">>, FullAttrs, Obj(Ref(IdB))) >>,
       included |-> << [id |-> IdA, type |-> "users",
                        attributes |-> ("created-at" :> T1)],
                       JobApp(IdB, T2) >>,
       meta |-> [page_count |-> 1]] }

WithLinks(c, links) ==
    [k \in (DOMAIN c) \cup {"links"} |-> IF k = "links" THEN links ELSE c[k]]

\* bodies of a page that has a successor: links.next is a URL (on the
\* contents that carry meta, to keep the upstreams few)
MoreBodies ==
    {WithLinks(c, [next |-> "https://api.teamtailor.com/v1/candidates?next"]) :
        c \in {d \in Contents : Has(d, "meta")}}

\* bodies of a last page: no links at all, or links.next empty
LastBodies == Contents \cup {WithLinks(c, [next |-> ""]) : c \in Contents}

Bodies == MoreBodies \cup LastBodies

\* the upstreams: n <= MaxPages pages of which the last one ends the
\* collection, or MaxPages pages that all announce a successor (the
\* upstream then has more pages than the model serves)
Upstreams ==
    UNION {{Append(front, last) :
                front \in [1..(n - 1) -> MoreBodies], last \in LastBodies} :
            n \in 1..MaxPages}
        \cup [1..MaxPages -> MoreBodies]

Statuses == {200, 304, 401, 403, 429, 500}

Headers == {"", "hdr-key"}

EnvKeys == {"", "your_api_key_here", "env-key"}

DirectKeys == {"", "key"}

Exports == {1, 2}

\* the export that runs in Spec; the other one stays idle
Single == {1}

----------------------------------------------------------------------------
(* The export pipeline as a state machine *)

\* allRows declared at module level: one array for all exports
OwnMut(all, e, r) ==
    [f \in DOMAIN all |->
        IF f = e THEN r ELSE [all[f] EXCEPT !.allRows = r.allRows]]

\* currentPage, totalPages, allRows, attempt, lastError are locals of the
\* call that declares them: a step of export e, which leaves its locals as
\* r, writes those of no other export
Own(all, e, r) == [all EXCEPT ![e] = r]

FlatIdle == [pc |-> "idle"]

CsvIdle == [pc |-> "idle"]

Init ==
    /\ upstream \in Upstreams
    /\ API_KEY \in EnvKeys
    /\ ex = [e \in Exports |-> IdleExport]
    /\ cv = CsvIdle
    /\ fl = FlatIdle

\* GET /api/export arrives
ExportRequest(e) ==
    /\ ex[e].pc = "idle"
    /\ \E header \in Headers :
          ex' = Own(ex, e, OnExportRequest(ex[e], header, API_KEY))
    /\ UNCHANGED <<upstream, API_KEY, fl, cv>>

\* another module calls the exported fetchAllCandidates(apiKey)
DirectCall(e) ==
    /\ ex[e].pc = "idle"
    /\ \E apiKey \in DirectKeys :
          ex' = Own(ex, e, fetchAllCandidates([ex[e] EXCEPT !.via = "direct"],
                                              apiKey))
    /\ UNCHANGED <<upstream, API_KEY, fl, cv>>

\* the upstream answers the request in flight
Respond(e) ==
    /\ ex[e].pc = "awaitResponse"
    /\ ex[e].pageNumber <= Len(upstream)
    /\ \E status \in Statuses :
          ex' = Own(ex, e, OnResponse(ex[e], status))
    /\ UNCHANGED <<upstream, API_KEY, fl, cv>>

\* response.json() resolves with the body of the requested page
JsonParsed(e) ==
    /\ ex[e].pc = "awaitJson"
    /\ ex' = Own(ex, e, OnJson(ex[e], upstream[ex[e].pageNumber]))
    /\ UNCHANGED <<upstream, API_KEY, fl, cv>>

\* the backoff timer fires
TimerFires(e) ==
    /\ ex[e].pc = "sleeping"
    /\ ex[e].timer > 0
    /\ ex' = Own(ex, e, OnTimer(ex[e]))
    /\ UNCHANGED <<upstream, API_KEY, fl, cv>>

Step(e) ==
    \/ ExportRequest(e)
    \/ DirectCall(e)
    \/ Respond(e)
    \/ JsonParsed(e)
    \/ TimerFires(e)

Next == \E e \in Single : Step(e)

Spec == Init /\ [][Next]_vars

----------------------------------------------------------------------------
(* Two exports at once: the endpoint serves a second request, or another   *)
(* caller starts a second run, while the first is suspended at an await.   *)
(* Any export that can take a step may take the next one.                  *)

\* the two-page collection of the example, and a collection of one page
ConcUpstreams ==
    {u \in Upstreams :
        \/ Len(u) = 1 /\ ~Has(u[1], "meta") /\ ~Has(u[1], "links")
        \/ /\ Len(u) = 2
           /\ Has(u[1].meta, "record_count")
           /\ Has(u[2], "meta") /\ Has(u[2].meta, "page_count")
           /\ ~Has(u[2], "links")}

InitConc ==
    /\ upstream \in ConcUpstreams
    /\ API_KEY = ""
    /\ ex = [e \in Exports |-> IdleExport]
    /\ fl = FlatIdle
    /\ cv = CsvIdle

NextConc == \E e \in Exports : Step(e)

SpecConc == InitConc /\ [][NextConc]_vars

----------------------------------------------------------------------------
(* The flattener on its own: every record and side-loaded list within the  *)
(* bounds, indexed and flattened as the driver does for one page.          *)

InitFlat ==
    /\ upstream = <<CHOOSE b \in LastBodies : TRUE>>
    /\ API_KEY = ""
    /\ ex = [e \in Exports |-> IdleExport]
    /\ cv = CsvIdle
    /\ \E input \in FlatInputs :
          fl = [pc |-> "input", candidate |-> input.data[1], data |-> input]

Flatten ==
    /\ fl.pc = "input"
    /\ fl' = [pc |-> "output", candidate |-> fl.candidate, data |-> fl.data,
              jobAppsMap |-> BuildJobAppsMap(fl.data),
              rows |-> parseCandidateToRows(fl.candidate, BuildJobAppsMap(fl.data))]
    /\ UNCHANGED <<upstream, API_KEY, ex, cv>>

NextFlat == Flatten

SpecFlat == InitFlat /\ [][NextFlat]_vars

----------------------------------------------------------------------------
(* The CSV encoder on its own: escapeField on every field over an alphabet *)
(* that holds the three characters it quotes for, and convertToCSV on      *)
(* every sequence of rows within the bounds.                               *)

Alphabet == {"a", COMMA, QUOTE, NEWLINE}

Fields == UNION {[1..n -> Alphabet] : n \in 0..MaxFieldLen}

\* values of the one column that varies freely in the rows
SampleFields ==
    { <<>>, <<"a">>, <<"a", COMMA, "a">>, <<QUOTE>>, <<"a", NEWLINE, "a">> }

CsvRow(first, last) ==
    [candidate_id |-> <<"1">>, first_name |-> first, last_name |-> last,
     email |-> <<"a">>, job_application_id |-> <<>>,
     job_application_created_at |-> T1]

\* rows as the flattener builds them, and one row that lacks a property
CsvRows ==
    {CsvRow(f, g) : f \in SampleFields, g \in {<<>>, <<NEWLINE>>}}
        \cup {[candidate_id |-> <<"2">>, first_name |-> <<"a">>,
                last_name |-> <<>>, job_application_id |-> IdA,
                job_application_created_at |-> <<>>]}

CsvInputs ==
    {[pc |-> "field", field |-> f] : f \in Fields}
        \cup {[pc |-> "rows", rows |-> r] : r \in SeqsUpTo(CsvRows, MaxRows)}

InitCsv ==
    /\ upstream = <<CHOOSE b \in LastBodies : TRUE>>
    /\ API_KEY = ""
    /\ ex = [e \in Exports |-> IdleExport]
    /\ fl = FlatIdle
    /\ cv \in CsvInputs

Escape ==
    /\ cv.pc = "field"
    /\ cv' = [pc |-> "escaped", field |-> cv.field, out |-> escapeField(cv.field)]
    /\ UNCHANGED <<upstream, API_KEY, ex, fl>>

Convert ==
    /\ cv.pc = "rows"
    /\ cv' = [pc |-> "converted", rows |-> cv.rows, csv |-> convertToCSV(cv.rows)]
    /\ UNCHANGED <<upstream, API_KEY, ex, fl>>

NextCsv == Escape \/ Convert

SpecCsv == InitCsv /\ [][NextCsv]_vars

----------------------------------------------------------------------------
(* Reading a trace of one fetchCandidatesPage call *)

CountEv(t, ev) == Cardinality({i \in 1..Len(t) : t[i].ev = ev})

Count429(t) == Cardinality({i \in 1..Len(t) : t[i] = Ev("response", 429)})

\* the durations of the waits of t, in order
WaitsOf(t) ==
    LET w == SelectSeq(t, LAMBDA x : x.ev = "wait")
    IN  [i \in 1..Len(w) |-> w[i].n]

IsPrefix(s, t) == Len(s) <= Len(t) /\ s = SubSeq(t, 1, Len(s))

RECURSIVE RateLimitedRounds(_, _)
\* j rounds of: request, 429, wait 2^(k-1) seconds
RateLimitedRounds(page, j) ==
    IF j = 0 THEN <<>>
    ELSE RateLimitedRounds(page, j - 1)
            \o << Ev("request", page), Ev("response", 429),
                  Ev("wait", (2 ^ (j - 1)) * 1000) >>

\* the first j attempts answered 429, attempt j+1 answered status
ExpectedTrace(page, j, status) ==
    RateLimitedRounds(page, j) \o << Ev("request", page), Ev("response", status) >>

\* the call of export e that settled last ended on a response other than 429
SettledOn(e) ==
    /\ ex[e].lastCall # Null
    /\ ex[e].lastCall.trace[Len(ex[e].lastCall.trace)].n # 429

LastStatus(e) == ex[e].lastCall.trace[Len(ex[e].lastCall.trace)].n

\* nothing of export e can run any more
Stopped(e) == ~ENABLED Step(e)

----------------------------------------------------------------------------
(* C1: when the first j attempts of a call are answered 429 and attempt    *)
(* j+1 is not, the call made exactly j waits of 1s, 2s, 4s in that order,  *)
(* each after a 429 and before the next request, none before the first     *)
(* attempt, and its outcome is that of attempt j+1: a 2xx returns that     *)
(* response's body, anything else throws.                                  *)
BackoffSchedule ==
    \A e \in Exports :
        /\ ex[e].pc \in {"awaitResponse", "sleeping"} =>
              IsPrefix(ex[e].trace, ExpectedTrace(ex[e].pageNumber, 3, 429))
        /\ ex[e].pc = "awaitJson" =>
              \E j \in 0..3, s \in 200..299 :
                  ex[e].trace = ExpectedTrace(ex[e].pageNumber, j, s)
        /\ SettledOn(e) =>
              LET c == ex[e].lastCall
                  j == Count429(c.trace)
              IN  /\ j \in 0..3
                  /\ c.trace = ExpectedTrace(c.page, j, LastStatus(e))
                  /\ WaitsOf(c.trace) = SubSeq(<<1000, 2000, 4000>>, 1, j)
                  /\ (c.outcome.type = "return") = (LastStatus(e) \in 200..299)
                  /\ (c.outcome.type = "throw") = (LastStatus(e) \notin 200..299)
                  /\ c.outcome.type = "return" => c.outcome.data = upstream[c.page]

\* three 429s, then a 200 whose body the call returned
BackoffScheduleWitness ==
    \E e \in Exports :
        /\ SettledOn(e)
        /\ Count429(ex[e].lastCall.trace) = 3
        /\ WaitsOf(ex[e].lastCall.trace) = <<1000, 2000, 4000>>
        /\ ex[e].lastCall.outcome.type = "return"

----------------------------------------------------------------------------
(* C2: a call whose four attempts were all answered 429 fails with the     *)
(* rate-limit error and nothing follows: no request, no wait.  No call     *)
(* issues more than 4 requests or waits more than 3 times.                 *)
RetryBudget ==
    \A e \in Exports :
        /\ CountEv(ex[e].trace, "request") <= 4
        /\ CountEv(ex[e].trace, "wait") <= 3
        /\ ex[e].attempt <= 4
        /\ Count429(ex[e].trace) = 4 =>
              /\ ex[e].pc = "done"
              /\ ex[e].lastCall # Null
              /\ ex[e].lastCall.trace = ex[e].trace
              /\ ex[e].trace[Len(ex[e].trace)] = Ev("response", 429)
              /\ ex[e].lastCall.outcome = [type |-> "throw", error |-> Error("Rate limited")]
              /\ ex[e].result = [type |-> "throw", error |-> Error("Rate limited")]
              /\ ex[e].inflight = 0
              /\ Stopped(e)

\* the fourth 429 in a row
RetryBudgetWitness ==
    \E e \in Exports :
        /\ Count429(ex[e].trace) = 4
        /\ CountEv(ex[e].trace, "request") = 4
        /\ CountEv(ex[e].trace, "wait") = 3
        /\ ex[e].result # Null

----------------------------------------------------------------------------
(* C3: a 401 fails the call with "Invalid API key", a 403 with "Access     *)
(* denied", any other status outside 2xx and other than 429 with "API      *)
(* error: <status>", on the first attempt or on a retry; the export ends   *)
(* there with no wait and no request after it.  Only a 429 is ever         *)
(* followed by anything in a call.                                         *)
NonRetryable ==
    \A e \in Exports :
        /\ \A i \in 1..(Len(ex[e].trace) - 1) :
              ex[e].trace[i].ev = "response" => ex[e].trace[i].n = 429
        /\ (SettledOn(e) /\ LastStatus(e) \notin 200..299) =>
              LET s == LastStatus(e)
                  err == ex[e].lastCall.outcome.error
              IN  /\ ex[e].lastCall.outcome.type = "throw"
                  /\ s = 401 => err.message = "Invalid API key"
                  /\ s = 403 => err.message = "Access denied"
                  /\ s \notin {401, 403} => err.message = "API error: " \o ToString(s)
                  /\ ex[e].pc = "done"
                  /\ ex[e].result = [type |-> "throw", error |-> err]
                  /\ ex[e].trace = ex[e].lastCall.trace
                  /\ ex[e].inflight = 0
                  /\ ex[e].timer = 0
                  /\ Stopped(e)

\* a 500 on a retry, after one 429
NonRetryableWitness ==
    \E e \in Exports :
        /\ SettledOn(e)
        /\ LastStatus(e) = 500
        /\ Count429(ex[e].lastCall.trace) = 1
        /\ ex[e].lastCall.outcome.error.message = "API error: 500"

----------------------------------------------------------------------------
(* Reading the upstream *)

\* the page body carries a non-empty continuation cursor
Cursor(body) ==
    /\ "links" \in DOMAIN body
    /\ "next" \in DOMAIN body.links
    /\ body.links.next # ""

\* pages 1..n-1 carry a cursor and page n does not
LastPageIs(n) ==
    /\ n \in 1..Len(upstream)
    /\ ~Cursor(upstream[n])
    /\ \A p \in 1..(n - 1) : Cursor(upstream[p])

UpTo(n) == [i \in 1..n |-> i]

\* the page numbers of the requests of export e, in the order issued
RequestedPages(e) == [i \in 1..Len(ex[e].reqLog) |-> ex[e].reqLog[i].page]

Returned(e) == ex[e].result # Null /\ ex[e].result.type = "return"

Failed(e) == ex[e].result # Null /\ ex[e].result.type = "throw"

----------------------------------------------------------------------------
(* C4: against an upstream whose pages 1..N-1 carry a cursor and whose     *)
(* page N does not, the driver takes pages 1, 2, ..., N in that order,     *)
(* each once, never asks for page N+1, and returns once page N is in; it   *)
(* has then issued N requests plus one for every 429 it was answered.      *)
PaginationTerminates ==
    \A e \in Exports : \A n \in 1..MaxPages :
        LastPageIs(n) =>
            /\ \A i \in 1..Len(ex[e].reqLog) : ex[e].reqLog[i].page \in 1..n
            /\ \A i \in 1..(Len(ex[e].reqLog) - 1) :
                  ex[e].reqLog[i].page <= ex[e].reqLog[i + 1].page
            /\ IsPrefix(ex[e].pagesDone, UpTo(n))
            /\ ex[e].pagesDone = UpTo(n) => Returned(e)
            /\ Returned(e) =>
                  /\ ex[e].pagesDone = UpTo(n)
                  /\ Len(ex[e].reqLog) = n + ex[e].rateLimited
                  /\ ex[e].rateLimited = 0 => RequestedPages(e) = UpTo(n)
                  /\ ex[e].pc = "done"
                  /\ ex[e].inflight = 0
                  /\ Stopped(e)

\* two pages fetched with two requests, and the driver returned
PaginationTerminatesWitness ==
    \E e \in Exports :
        /\ LastPageIs(2)
        /\ Returned(e)
        /\ RequestedPages(e) = <<1, 2>>

----------------------------------------------------------------------------
(* C5: when the fetcher fails on a page, the driver fails with that very   *)
(* error, hands no rows to its caller, issues no further request, and the  *)
(* endpoint sends no CSV; rows are returned (and CSV sent) only after      *)
(* every page up to the first one without a cursor was fetched.            *)
AllOrNothing ==
    \A e \in Exports :
        /\ (ex[e].lastCall # Null /\ ex[e].lastCall.outcome.type = "throw") =>
              /\ ex[e].pc = "done"
              /\ ex[e].result = [type |-> "throw",
                                 error |-> ex[e].lastCall.outcome.error]
              /\ ex[e].inflight = 0
              /\ Stopped(e)
              /\ ex[e].via = "endpoint" =>
                    /\ ex[e].res.status = 500
                    /\ "csv" \notin DOMAIN ex[e].res
                    /\ ex[e].res.error = ex[e].lastCall.outcome.error.message
        /\ Returned(e) =>
              /\ LastPageIs(Len(ex[e].pagesDone))
              /\ ex[e].pagesDone = UpTo(Len(ex[e].pagesDone))
              /\ ex[e].lastCall.outcome.type = "return"
        /\ (ex[e].res # Null /\ "csv" \in DOMAIN ex[e].res) => Returned(e)

\* the fetcher failed on page 2 with the rows of page 1 already
\* accumulated, and the endpoint answered 500
AllOrNothingWitness ==
    \E e \in Exports :
        /\ Failed(e)
        /\ ex[e].lastCall.page = 2
        /\ Len(ex[e].allRows) > 0
        /\ ex[e].via = "endpoint"
        /\ ex[e].res.status = 500

----------------------------------------------------------------------------
(* Reading records and pages by the data model *)

\* the references of a record's job-applications relationship: a list of
\* (id, type) pairs, one pair, or none
RefsOf(candidate) ==
    IF /\ "relationships" \in DOMAIN candidate
       /\ JA \in DOMAIN candidate.relationships
    THEN LET d == candidate.relationships[JA].data
         IN  IF d.kind = "array" THEN d.items ELSE <<d.item>>
    ELSE <<>>

\* a job-applications record with this id is side-loaded in the page
SideLoaded(data, id) ==
    /\ "included" \in DOMAIN data
    /\ \E i \in 1..Len(data.included) :
          data.included[i].type = JA /\ data.included[i].id = id

Max(a, b) == IF a >= b THEN a ELSE b

RECURSIVE RowCountOf(_)
\* the sum over the records of max(1, number of references)
RowCountOf(records) ==
    IF records = <<>> THEN 0
    ELSE Max(1, Len(RefsOf(Head(records)))) + RowCountOf(Tail(records))

RECURSIVE OwnersOf(_)
\* each record's id, repeated max(1, number of references) times
OwnersOf(records) ==
    IF records = <<>> THEN <<>>
    ELSE [i \in 1..Max(1, Len(RefsOf(Head(records)))) |-> Head(records).id]
            \o OwnersOf(Tail(records))

RECURSIVE RowsOfPages(_)
\* the flattened rows of pages 1..n: page by page, record by record
RowsOfPages(n) ==
    IF n = 0 THEN <<>>
    ELSE RowsOfPages(n - 1)
            \o FlattenAll(upstream[n].data, BuildJobAppsMap(upstream[n]))

RECURSIVE RecordsOfPages(_)
\* the primary records of pages 1..n in payload order
RecordsOfPages(n) ==
    IF n = 0 THEN <<>> ELSE RecordsOfPages(n - 1) \o upstream[n].data

----------------------------------------------------------------------------
(* C6: the flattener returns at least one row; for k > 0 references,       *)
(* given as a list of pairs or as one pair, exactly k rows, the i-th with  *)
(* the i-th reference's id; for no reference exactly one placeholder row   *)
(* with empty job_application_id and job_application_created_at.           *)
FlattenerRowCount ==
    fl.pc = "output" =>
        LET refs == RefsOf(fl.candidate)
            k == Len(refs)
        IN  /\ Len(fl.rows) >= 1
            /\ k > 0 =>
                  /\ Len(fl.rows) = k
                  /\ \A i \in 1..k : fl.rows[i].job_application_id = refs[i].id
            /\ k = 0 =>
                  /\ Len(fl.rows) = 1
                  /\ fl.rows[1].job_application_id = <<>>
                  /\ fl.rows[1].job_application_created_at = <<>>

----------------------------------------------------------------------------
(* C7: the rows a successful export returns are the flattened rows of      *)
(* pages 1..N in fetch order, record by record in payload order; every     *)
(* record of every fetched page is in some row, and there are as many      *)
(* rows as the sum over the records of max(1, number of references).       *)
CompleteOrderedOutput ==
    \A e \in Exports :
        Returned(e) =>
            LET n == Len(ex[e].pagesDone)
                rows == ex[e].result.rows
                records == RecordsOfPages(n)
            IN  /\ ex[e].pagesDone = UpTo(n)
                /\ rows = RowsOfPages(n)
                /\ Len(rows) = RowCountOf(records)
                /\ \A i \in 1..Len(records) :
                      \E j \in 1..Len(rows) : rows[j].candidate_id = records[i].id
                /\ [i \in 1..Len(rows) |-> rows[i].candidate_id] = OwnersOf(records)
                /\ ex[e].via = "endpoint" => ex[e].res.csv = convertToCSV(rows)

\* page 1: a candidate with applications a and b, both side-loaded, and a
\* cursor; page 2: a candidate without relationships, no cursor; 3 rows
CompleteOrderedOutputWitness ==
    \E e \in Exports :
        /\ Returned(e)
        /\ ex[e].pagesDone = <<1, 2>>
        /\ Len(ex[e].result.rows) = 3
        /\ ex[e].result.rows[1].job_application_id = IdA
        /\ ex[e].result.rows[1].job_application_created_at = T1
        /\ ex[e].result.rows[2].job_application_id = IdB
        /\ ex[e].result.rows[2].job_application_created_at = T2
        /\ ex[e].result.rows[3].candidate_id = <<"c","2">>
        /\ ex[e].result.rows[3].job_application_id = <<>>

----------------------------------------------------------------------------
----------------------------------------------------------------------------
(* C9: no request goes upstream with an empty credential, whether the      *)
(* export came in through the endpoint or through fetchAllCandidates.      *)
NoRequestWithoutCredential ==
    \A e \in Exports :
        \A i \in 1..Len(ex[e].reqLog) : ex[e].reqLog[i].token # ""

----------------------------------------------------------------------------
(* C10: an export has at most one request in flight; none while a backoff  *)
(* timer is pending; a retry goes out only after the 429 and the wait      *)
(* that follows it; the first request for page n+1 goes out only after     *)
(* pages 1..n were answered and their rows appended.                       *)
StrictlySequential ==
    \A e \in Exports :
        /\ ex[e].inflight \in {0, 1}
        /\ (ex[e].inflight = 1) = (ex[e].pc = "awaitResponse")
        /\ ex[e].inflight > 0 => ex[e].timer = 0
        /\ (ex[e].timer > 0) = (ex[e].pc = "sleeping")
        /\ ex[e].pc = "sleeping" =>
              /\ Len(ex[e].trace) >= 2
              /\ ex[e].trace[Len(ex[e].trace)] = Ev("wait", ex[e].timer)
              /\ ex[e].trace[Len(ex[e].trace) - 1] = Ev("response", 429)
        /\ \A i \in 2..Len(ex[e].trace) :
              ex[e].trace[i].ev = "request" =>
                  /\ i >= 4
                  /\ ex[e].trace[i - 1].ev = "wait"
                  /\ ex[e].trace[i - 2] = Ev("response", 429)
                  /\ ex[e].trace[i - 3].ev = "request"
        /\ ex[e].pc \in {"awaitResponse", "sleeping", "awaitJson"} =>
              /\ ex[e].trace # <<>>
              /\ ex[e].trace[1] = Ev("request", ex[e].pageNumber)
              /\ ex[e].pageNumber = ex[e].currentPage
              /\ ex[e].pagesDone = UpTo(ex[e].pageNumber - 1)
              /\ ex[e].allRows = RowsOfPages(ex[e].pageNumber - 1)

\* the retry for page 2 is in flight: page 1 is in, the 429 was answered
\* and the wait is over
StrictlySequentialWitness ==
    \E e \in Exports :
        /\ ex[e].pc = "awaitResponse"
        /\ ex[e].pageNumber = 2
        /\ ex[e].attempt = 1
        /\ ex[e].timer = 0
        /\ Len(ex[e].allRows) > 0

----------------------------------------------------------------------------
(* Reading a CSV document *)

\* position i of text lies inside a quoted field: an odd number of quote
\* characters precedes it
InQuotes(text, i) ==
    Cardinality({j \in 1..(i - 1) : text[j] = QUOTE}) % 2 = 1

\* occurrences of ch in text
CountCh(text, ch) == Cardinality({i \in 1..Len(text) : text[i] = ch})

\* occurrences of ch in text outside quoted fields
CountOutside(text, ch) ==
    Cardinality({i \in 1..Len(text) : text[i] = ch /\ ~InQuotes(text, i)})

\* the header line, character by character
HeaderLineText ==
    HeaderText("candidate_id") \o <<COMMA>> \o HeaderText("first_name")
        \o <<COMMA>> \o HeaderText("last_name") \o <<COMMA>>
        \o HeaderText("email") \o <<COMMA>>
        \o HeaderText("job_application_id") \o <<COMMA>>
        \o HeaderText("job_application_created_at")

RowHasNewline(row) == \E k \in DOMAIN row : Contains(row[k], NEWLINE)

\* C11 as stated: the document starts with the BOM, splits at its newline
\* characters into 1 + Len(rows) lines, does not end with a newline, and
\* is the BOM and the header line alone when there are no rows.
CsvLineStructure ==
    cv.pc = "converted" =>
        /\ Head(cv.csv) = BOM
        /\ CountCh(cv.csv, NEWLINE) + 1 = 1 + Len(cv.rows)
        /\ cv.csv[Len(cv.csv)] # NEWLINE
        /\ cv.rows = <<>> => cv.csv = <<BOM>> \o HeaderLineText

\* C11, amended: the document starts with the BOM followed by the header
\* line; its records are separated by single newline characters outside
\* quoted fields, of which there are exactly Len(rows), none of them last,
\* and every record has six fields; the newline characters of the document
\* are Len(rows) in number when no field holds one; with no rows the
\* document is the BOM and the header line alone.
CsvRecordStructure ==
    cv.pc = "converted" =>
        /\ Head(cv.csv) = BOM
        /\ IsPrefix(<<BOM>> \o HeaderLineText, cv.csv)
        /\ CountOutside(cv.csv, NEWLINE) = Len(cv.rows)
        /\ CountOutside(cv.csv, COMMA) = 5 * (1 + Len(cv.rows))
        /\ cv.csv[Len(cv.csv)] # NEWLINE \/ InQuotes(cv.csv, Len(cv.csv))
        /\ \A i \in 1..(Len(cv.csv) - 1) :
              ~(cv.csv[i] = NEWLINE /\ cv.csv[i + 1] = NEWLINE
                  /\ ~InQuotes(cv.csv, i) /\ ~InQuotes(cv.csv, i + 1))
        /\ (\A i \in 1..Len(cv.rows) : ~RowHasNewline(cv.rows[i])) =>
              CountCh(cv.csv, NEWLINE) = Len(cv.rows)
        /\ cv.rows = <<>> => cv.csv = <<BOM>> \o HeaderLineText

\* two rows encoded, one of them with a newline inside a field
CsvRecordStructureWitness ==
    /\ cv.pc = "converted"
    /\ Len(cv.rows) = 2
    /\ RowHasNewline(cv.rows[1])
    /\ ~RowHasNewline(cv.rows[2])

RECURSIVE ReadQuoted(_)
\* RFC 4180, inside a quoted field (the opening quote already read): two
\* quotes stand for one, a single quote ends the field; the result is the
\* field's value and the text left after the closing quote
ReadQuoted(text) ==
    IF text = <<>> THEN [value |-> <<>>, rest |-> <<>>, closed |-> FALSE]
    ELSE IF Head(text) = QUOTE
         THEN IF Len(text) >= 2 /\ text[2] = QUOTE
              THEN LET r == ReadQuoted(Tail(Tail(text)))
                   IN  [r EXCEPT !.value = <<QUOTE>> \o @]
              ELSE [value |-> <<>>, rest |-> Tail(text), closed |-> TRUE]
         ELSE LET r == ReadQuoted(Tail(text))
              IN  [r EXCEPT !.value = <<Head(text)>> \o @]

RECURSIVE ReadPlain(_)
\* RFC 4180, an unquoted field: it runs up to the next comma or newline
ReadPlain(text) ==
    IF text = <<>> \/ Head(text) \in {COMMA, NEWLINE}
    THEN [value |-> <<>>, rest |-> text, closed |-> TRUE]
    ELSE LET r == ReadPlain(Tail(text))
         IN  [r EXCEPT !.value = <<Head(text)>> \o @]

\* the first field of text, read by the rules of RFC 4180
ReadField(text) ==
    IF text # <<>> /\ Head(text) = QUOTE THEN ReadQuoted(Tail(text))
    ELSE ReadPlain(text)

IsSpecial(field) ==
    \E i \in 1..Len(field) : field[i] \in {COMMA, QUOTE, NEWLINE}

\* C12: escapeField wraps a field in double quotes exactly when it holds a
\* comma, a double quote or a newline, with every embedded quote doubled
\* and nothing else changed; any other field comes out unchanged; and
\* reading the produced field back by the rules of RFC 4180 gives the
\* original field, with nothing of the produced text left over.
EscapeRoundTrip ==
    cv.pc = "escaped" =>
        LET f == cv.field
            out == cv.out
            quoted == Len(out) >= 2 /\ Head(out) = QUOTE /\ out[Len(out)] = QUOTE
        IN  /\ IsSpecial(f) <=> quoted
            /\ ~IsSpecial(f) => out = f
            /\ IsSpecial(f) =>
                  /\ Len(out) = Len(f) + 2 + CountCh(f, QUOTE)
                  /\ CountCh(out, QUOTE) = 2 + 2 * CountCh(f, QUOTE)
                  /\ SelectSeq(out, LAMBDA c : c # QUOTE)
                        = SelectSeq(f, LAMBDA c : c # QUOTE)
            /\ ReadField(out) = [value |-> f, rest |-> <<>>, closed |-> TRUE]

\* a field with a quote, a comma and a newline has been escaped
EscapeRoundTripWitness ==
    /\ cv.pc = "escaped"
    /\ Contains(cv.field, QUOTE)
    /\ Contains(cv.field, COMMA)
    /\ Contains(cv.field, NEWLINE)

----------------------------------------------------------------------------
(* Reading the estimate of the number of pages *)

\* the least k with k * PAGE_SIZE >= count
PagesFor(count) ==
    CHOOSE k \in 0..count : k * PAGE_SIZE >= count /\ (k - 1) * PAGE_SIZE < count

\* what the meta of one body says about the number of pages; NullPages
\* when it says nothing
EstimateFrom(body) ==
    IF "meta" \notin DOMAIN body THEN NullPages
    ELSE IF "record_count" \in DOMAIN body.meta /\ body.meta.record_count > 0
    THEN PagesFor(body.meta.record_count)
    ELSE IF "page_count" \in DOMAIN body.meta THEN body.meta.page_count
    ELSE NullPages

RECURSIVE EstimateAfter(_)
\* the estimate once pages 1..n are in: that of the first page that has one
EstimateAfter(n) ==
    IF n = 0 THEN NullPages
    ELSE IF EstimateAfter(n - 1) # NullPages THEN EstimateAfter(n - 1)
    ELSE EstimateFrom(upstream[n])

\* export e has issued a request for page p
Requested(e, p) == \E i \in 1..Len(ex[e].reqLog) : ex[e].reqLog[i].page = p

\* C13: once the response for page n is in, the driver has requested page
\* n+1 exactly when that response carries a non-empty links.next; it has
\* returned exactly when a page without one is in; the estimate it keeps
\* (from the first meta it saw) has no part in this, whether it is smaller
\* than the pages taken or larger; and when every page of the upstream
\* carries a cursor the driver has asked for the page after each one and
\* has not returned.
CursorDecides ==
    \A e \in Exports :
        /\ \A i \in 1..Len(ex[e].pagesDone) :
              LET n == ex[e].pagesDone[i]
              IN  Requested(e, n + 1) <=> Cursor(upstream[n])
        /\ Returned(e) <=>
              \E i \in 1..Len(ex[e].pagesDone) : ~Cursor(upstream[ex[e].pagesDone[i]])
        /\ ex[e].totalPages = EstimateAfter(Len(ex[e].pagesDone))
        /\ (\A p \in 1..Len(upstream) : Cursor(upstream[p])) =>
              /\ ~Returned(e)
              /\ ex[e].pagesDone = UpTo(Len(upstream)) =>
                    /\ ex[e].pc = "awaitResponse"
                    /\ ex[e].pageNumber = Len(upstream) + 1

\* the driver is asking for a page beyond its estimate, every page so far
\* having carried a cursor
CursorDecidesWitness ==
    /\ ex[1].pc = "awaitResponse"
    /\ ex[1].totalPages # NullPages
    /\ ex[1].pageNumber > ex[1].totalPages
    /\ ex[1].pagesDone = UpTo(Len(upstream))
    /\ \A p \in 1..Len(upstream) : Cursor(upstream[p])

\* the driver returned after fewer pages than its estimate
StopsBeforeEstimate ==
    \E e \in Exports : Returned(e) /\ Len(ex[e].pagesDone) < ex[e].totalPages

----------------------------------------------------------------------------
(* Reading the rows of one page out of the accumulated rows *)

\* the positions in allRows of the rows of page p
RowRange(p) ==
    (RowCountOf(RecordsOfPages(p - 1)) + 1)..RowCountOf(RecordsOfPages(p))

\* body side-loads a job-applications record with this id and timestamp
StampedOn(body, id, ts) ==
    /\ "included" \in DOMAIN body
    /\ \E k \in 1..Len(body.included) :
          /\ body.included[k].type = JA
          /\ body.included[k].id = id
          /\ "created-at" \in DOMAIN body.included[k].attributes
          /\ body.included[k].attributes["created-at"] = ts

\* body side-loads a record of this id, of whatever type
Carries(body, id) ==
    /\ "included" \in DOMAIN body
    /\ \E k \in 1..Len(body.included) : body.included[k].id = id

\* C14: the index is built anew for every page from that page's included
\* list, of which it keeps the job-applications records only; so the
\* timestamp of every row of page p is the created-at of a
\* job-applications record of the row's job_application_id side-loaded in
\* page p itself, or it is empty; a record side-loaded in another page, or
\* one of another type with the same id, supplies none.
PageScopedIndex ==
    \A e \in Exports :
        /\ \A i \in 1..Len(ex[e].pagesDone) :
              LET p == ex[e].pagesDone[i]
              IN  \A j \in RowRange(p) :
                      /\ j <= Len(ex[e].allRows)
                      /\ LET row == ex[e].allRows[j]
                         IN  /\ \/ row.job_application_created_at = <<>>
                                 \/ StampedOn(upstream[p], row.job_application_id,
                                              row.job_application_created_at)
                             /\ ~SideLoaded(upstream[p], row.job_application_id) =>
                                   row.job_application_created_at = <<>>
        /\ ex[e].pagesDone # <<>> =>
              LET last == upstream[ex[e].pagesDone[Len(ex[e].pagesDone)]]
              IN  DOMAIN ex[e].jobAppsMap = {id \in RefIds : SideLoaded(last, id)}

\* a row of page 2 whose reference is side-loaded as a job application in
\* page 1 only, and in page 2 as a record of another type: no timestamp
PageScopedIndexWitness ==
    /\ Len(ex[1].pagesDone) = 2
    /\ \E j \in RowRange(2) :
          LET id == ex[1].allRows[j].job_application_id
          IN  /\ id # <<>>
              /\ \E ts \in {T1, T2} : StampedOn(upstream[1], id, ts)
              /\ Carries(upstream[2], id)
              /\ ~SideLoaded(upstream[2], id)
              /\ ex[1].allRows[j].job_application_created_at = <<>>

----------------------------------------------------------------------------
(* Reading the requests of an export page by page *)

\* the requests export e issued for page p
RequestsFor(e, p) ==
    Cardinality({i \in 1..Len(ex[e].reqLog) : ex[e].reqLog[i].page = p})

\* the pages export e asked for
PagesAsked(e) == {ex[e].reqLog[i].page : i \in 1..Len(ex[e].reqLog)}

RateLimitError == [type |-> "throw", error |-> Error("Rate limited")]

\* C17: the retry budget is per page.  Every call starts with a request,
\* not a wait, and with its attempt counter at 0, whatever 429s came
\* before; its first wait, if any, is 1s; all its requests are for its own
\* page; no page is requested more than 4 times, so the requests of an
\* export are at most 4 times the pages it asked for; and the export fails
\* with the rate-limit error only when the last four requests were for one
\* page and all four answered 429.
PerPageBudget ==
    \A e \in Exports :
        /\ ex[e].pc \in {"awaitResponse", "sleeping", "awaitJson"} =>
              /\ ex[e].trace # <<>>
              /\ ex[e].trace[1] = Ev("request", ex[e].pageNumber)
              /\ ex[e].attempt = Count429(ex[e].trace)
        /\ \A i \in 1..Len(ex[e].trace) :
              ex[e].trace[i].ev = "request" => ex[e].trace[i].n = ex[e].pageNumber
        /\ WaitsOf(ex[e].trace) # <<>> => WaitsOf(ex[e].trace)[1] = 1000
        /\ \A p \in PagesAsked(e) : RequestsFor(e, p) <= MAX_RETRIES + 1
        /\ Len(ex[e].reqLog) <= 4 * Cardinality(PagesAsked(e))
        /\ ex[e].result = RateLimitError =>
              LET n == Len(ex[e].reqLog)
              IN  /\ n >= 4
                  /\ \A i \in (n - 3)..n : ex[e].reqLog[i].page = ex[e].reqLog[n].page
                  /\ RequestsFor(e, ex[e].reqLog[n].page) = 4
                  /\ ex[e].rateLimited >= 4
                  /\ Count429(ex[e].lastCall.trace) = 4
                  /\ ex[e].lastCall.page = ex[e].reqLog[n].page

\* two pages fetched with three 429s on each: six 429s, eight requests,
\* and the export returned
PerPageBudgetWitness ==
    /\ Returned(1)
    /\ Len(ex[1].pagesDone) = 2
    /\ ex[1].rateLimited = 6
    /\ Len(ex[1].reqLog) = 8
    /\ RequestsFor(1, 1) = 4
    /\ RequestsFor(1, 2) = 4

----------------------------------------------------------------------------
(* Reading a record and the side-loaded list it is flattened against *)

\* the attribute of a record, or the empty string when the record has none
\* of that name
AttrOrBlank(record, name) ==
    IF name \in DOMAIN record.attributes THEN record.attributes[name] ELSE <<>>

\* the job-applications record of this id that comes last in the
\* side-loaded list: the one the index resolves the id to
Resolved(data, id) ==
    LET ks == {k \in 1..Len(data.included) :
                  data.included[k].type = JA /\ data.included[k].id = id}
    IN  data.included[CHOOSE k \in ks : \A j \in ks : j <= k]

SixFields ==
    {"candidate_id", "first_name", "last_name", "email",
     "job_application_id", "job_application_created_at"}

\* C16: the flattener gives rows for every record, whatever attributes it
\* lacks; every row has exactly the six fields; candidate_id is the
\* record's id and first_name, last_name, email are its first-name,
\* last-name, email attributes, the empty string standing for a missing
\* one, the same in all rows of the record; and a reference resolved to a
\* side-loaded record that has no created-at gets the empty timestamp.
DefensiveDefaults ==
    /\ fl.pc = "input" => ENABLED Flatten
    /\ fl.pc = "output" =>
          /\ Len(fl.rows) >= 1
          /\ \A i \in 1..Len(fl.rows) :
                /\ DOMAIN fl.rows[i] = SixFields
                /\ fl.rows[i].candidate_id = fl.candidate.id
                /\ fl.rows[i].first_name = AttrOrBlank(fl.candidate, "first-name")
                /\ fl.rows[i].last_name = AttrOrBlank(fl.candidate, "last-name")
                /\ fl.rows[i].email = AttrOrBlank(fl.candidate, "email")
                /\ \A k \in SixFields \ {"job_application_id",
                                          "job_application_created_at"} :
                      fl.rows[i][k] = fl.rows[1][k]
                /\ SideLoaded(fl.data, fl.rows[i].job_application_id) =>
                      fl.rows[i].job_application_created_at
                          = AttrOrBlank(Resolved(fl.data, fl.rows[i].job_application_id),
                                        "created-at")

\* a record without first-name and email, flattened to two rows, one of
\* them for a side-loaded job application that has no created-at
DefensiveDefaultsWitness ==
    /\ fl.pc = "output"
    /\ DOMAIN fl.candidate.attributes = {"last-name"}
    /\ Len(fl.rows) = 2
    /\ fl.rows[1].first_name = <<>>
    /\ fl.rows[1].last_name # <<>>
    /\ \E i \in 1..2 :
          /\ SideLoaded(fl.data, fl.rows[i].job_application_id)
          /\ "created-at" \notin
                DOMAIN Resolved(fl.data, fl.rows[i].job_application_id).attributes
          /\ fl.rows[i].job_application_created_at = <<>>

----------------------------------------------------------------------------
(* Exports side by side *)

Running(e) == ex[e].pc \in {"awaitResponse", "sleeping", "awaitJson"}

\* the locals of export e are what its own responses made them
OwnLocals(e) ==
    /\ Running(e) =>
          /\ ex[e].currentPage = Len(ex[e].pagesDone) + 1
          /\ ex[e].pageNumber = ex[e].currentPage
          /\ ex[e].attempt = Count429(ex[e].trace)
    /\ ex[e].pagesDone = UpTo(Len(ex[e].pagesDone))
    /\ ex[e].totalPages = EstimateAfter(Len(ex[e].pagesDone))
    /\ ex[e].allRows = RowsOfPages(Len(ex[e].pagesDone))
    /\ Returned(e) =>
          /\ LastPageIs(Len(ex[e].pagesDone))
          /\ ex[e].result.rows = RowsOfPages(Len(ex[e].pagesDone))

\* export e, idle or suspended at a request or a backoff wait, can take
\* its next step, wherever the other exports are
CanProceed(e) ==
    /\ ex[e].pc = "idle" => ENABLED ExportRequest(e) /\ ENABLED DirectCall(e)
    /\ ex[e].pc = "awaitResponse" /\ ex[e].pageNumber <= Len(upstream) =>
          ENABLED Respond(e)
    /\ ex[e].pc = "sleeping" => ENABLED TimerFires(e)

IndependentState == \A e \in Exports : OwnLocals(e) /\ CanProceed(e)

\* a step changes the locals of one export at most
OneExportPerStep ==
    \A e, f \in Exports : e # f /\ ex'[e] # ex[e] => ex'[f] = ex[f]

\* C15: with exports interleaved at every await, each export's page
\* counter, attempt counter, estimate and rows are those its own
\* responses give it (the rows it returns are the rows of pages 1..N of
\* the upstream, as when it runs alone); a step of one export changes no
\* local of another; and an export that waits for a retry or has failed
\* leaves every other export able to take its next step.
IndependentExports == []IndependentState /\ [][OneExportPerStep]_vars

\* export 1 sits in the retry wait of its second page while export 2,
\* rate-limited itself on the way, has returned both pages
IndependentExportsWitness ==
    /\ ex[1].pc = "sleeping"
    /\ Len(ex[1].pagesDone) = 1
    /\ Returned(2)
    /\ Len(ex[2].pagesDone) = 2
    /\ ex[2].rateLimited > 0
    /\ ex[2].result.rows = RowsOfPages(2)

\* export 1 has failed with the rate-limit error and export 2 is fetching
\* its second page
FailureBesideProgress ==
    /\ ex[1].result = RateLimitError
    /\ ex[2].pc = "awaitResponse"
    /\ ex[2].pageNumber = 2

====
